---- MODULE Spec2Model ----
(* Model of src/main.py: the MyAnimeList "top anime with many 10-ratings"   *)
(* finder.  main() runs one of two pipelines: MALAnimeFinder (official API) *)
(* when a client id is typed, or the inline Jikan loop when it is empty.    *)
(* Scores are kept in tenths (9.1 is 91) so that they stay integers.        *)
EXTENDS Integers, Sequences, FiniteSets, TLC

(* ---------------------------------------------------------------- bounds *)
MaxPageLen == 2      \* items the service puts into one ranking page
MaxItems   == 5      \* items the MAL service hands out during one run
MaxJikan   == 4      \* items the Jikan service hands out during one run
MaxTopN    == 3      \* top_n values tried on the ranking function

(* ------------------------------------------------------------- constants *)
NoKey == 0 - 1       \* the key is missing from the JSON object
Null  == 0 - 2       \* the key is present and holds JSON null (None)

limit          == 500
MALPages       == 5
min_10_ratings == 35
top_n          == 100
min_score      == 70
min_users      == 5000
pages_to_check == 10
jikan_limit    == 25
jikan_min_10   == 35

Min(a, b) == IF a <= b THEN a ELSE b

(* ----------------------------------------------------- service responses *)
\* rating distributions the detail endpoints may carry
Dists ==
  { << [score |-> 9, votes |-> 50], [score |-> 8,  votes |-> 60] >>,
    << [score |-> 9, votes |-> 50], [score |-> 10, votes |-> 34] >>,
    << [score |-> 9, votes |-> 50], [score |-> 10, votes |-> 35] >> }

\* the unusual element a service may put into the 'data' array of its
\* ranking endpoint: a field missing, null or under a threshold
OddItems ==
  { [node |-> TRUE,  mean |-> Null,  users |-> 6000],
    [node |-> TRUE,  mean |-> NoKey, users |-> 6000],
    [node |-> TRUE,  mean |-> 65,    users |-> 6000],
    [node |-> TRUE,  mean |-> 91,    users |-> 100],
    [node |-> TRUE,  mean |-> 91,    users |-> NoKey],
    [node |-> FALSE, mean |-> NoKey, users |-> NoKey] }

\* the elements of the 'data' array of the MAL ranking endpoint: two regular
\* items, and the unusual one (odd) of the service of this run
MALItemsWith(o) ==
  { [node |-> TRUE, mean |-> 91, users |-> 6000],
    [node |-> TRUE, mean |-> 87, users |-> 6000],
    o }

\* the elements of the 'data' array of the Jikan top endpoint, which carry
\* the mean under the key 'score' and have no 'node' wrapper and no
\* scoring-user count
JikanItemsWith(o) == { [score |-> s] : s \in {91, 87, o.mean} }

\* the unusual item is one the schema of the chosen service can express
Expressible(o, jikan) == jikan => (o.node /\ o.users = 6000)

NoDetail == [present |-> FALSE, hasStats |-> FALSE, hasScores |-> FALSE,
             scores |-> << >>, total |-> NoKey]

\* what get_anime_details can return: None, or the decoded JSON object
MALDetails ==
  { NoDetail,
    [present |-> TRUE, hasStats |-> FALSE, hasScores |-> FALSE,
     scores |-> << >>, total |-> NoKey],
    [present |-> TRUE, hasStats |-> TRUE, hasScores |-> FALSE,
     scores |-> << >>, total |-> NoKey] }
  \cup { [present |-> TRUE, hasStats |-> TRUE, hasScores |-> TRUE,
          scores |-> d, total |-> NoKey] : d \in Dists }

\* what get_anime_statistics can return: None, or the 'data' object
JikanStats ==
  { NoDetail,
    [present |-> TRUE, hasStats |-> TRUE, hasScores |-> FALSE,
     scores |-> << >>, total |-> 9000] }
  \cup { [present |-> TRUE, hasStats |-> TRUE, hasScores |-> TRUE,
          scores |-> d, total |-> 9000] : d \in Dists }
  \cup { [present |-> TRUE, hasStats |-> TRUE, hasScores |-> TRUE,
          scores |-> << [score |-> 9, votes |-> 50],
                        [score |-> 10, votes |-> 35] >>,
          total |-> NoKey] }

SeqsUpTo(S, n) == UNION { [1..k -> S] : k \in 0..n }

\* outcome of one ranking-page request: transport/HTTP failure, a body
\* without the 'data' key, or a body with a 'data' array
PageResponses(S, room) ==
  { [kind |-> "fail", data |-> << >>], [kind |-> "nodata", data |-> << >>] }
  \cup { [kind |-> "ok", data |-> d] : d \in SeqsUpTo(S, Min(MaxPageLen, room)) }

(* ------------------------------------------------------- pure functions *)
Take(s, n) == SubSeq(s, 1, Min(n, Len(s)))

\* first index of the table whose score-value is 10, 0 when there is none
\* (the scan "for score_data in stats['scores']: if score == 10: ... break")
RECURSIVE FindTenFrom(_, _)
FindTenFrom(scores, k) ==
  IF k > Len(scores) THEN 0
  ELSE IF scores[k].score = 10 THEN k
  ELSE FindTenFrom(scores, k + 1)

\* variant: takes the first entry of the table whatever its score-value
FindTen_first(scores) == IF Len(scores) = 0 THEN 0 ELSE 1
FindTen(scores) == FindTenFrom(scores, 1)

\* the cheap pre-filter of the MAL pipeline: TRUE when the item is skipped
Prefiltered(anime) ==
  \/ anime.mean = NoKey
  \/ anime.mean = Null
  \/ anime.mean < min_score
  \/ anime.users = NoKey
  \/ anime.users < min_users

\* what the MAL loop body does with a detail response:
\* "raise" (uncaught exception), "add" (append a record) or "skip"
\* variant: reads details['statistics'] without testing details for None
MALOutcome_nonecheck(d) ==
  IF ~d.present THEN "raise"
  ELSE IF ~(d.hasStats /\ d.hasScores) THEN "skip"
  ELSE IF FindTen(d.scores) = 0 THEN "skip"
  ELSE IF d.scores[FindTen(d.scores)].votes >= min_10_ratings THEN "add"
  ELSE "skip"
MALOutcome(d) ==
  IF ~(d.present /\ d.hasStats) THEN "skip"
  ELSE IF ~d.hasScores THEN "skip"
  ELSE IF FindTen(d.scores) = 0 THEN "skip"
  ELSE IF d.scores[FindTen(d.scores)].votes >= min_10_ratings THEN "add"
  ELSE "skip"

\* first index of the table with score-value 10 and at least 35 votes
\* ("if score['score'] == 10 and score['votes'] >= 35: ... break")
RECURSIVE JikanFindFrom(_, _)
JikanFindFrom(scores, k) ==
  IF k > Len(scores) THEN 0
  ELSE IF scores[k].score = 10 /\ scores[k].votes >= jikan_min_10 THEN k
  ELSE JikanFindFrom(scores, k + 1)

\* what the Jikan loop body does with an item and its statistics:
\* "raise" is an exception caught by the per-item handler
JikanOutcome(anime, st) ==
  IF ~(st.present /\ st.hasScores) THEN "skip"
  ELSE IF JikanFindFrom(st.scores, 1) = 0 THEN "skip"
  ELSE IF anime.score = NoKey \/ st.total = NoKey THEN "raise"
  ELSE "add"

\* list.sort(key=score, reverse=True): stable, highest score first.
\* Insert x behind every element whose score is at least x.score.
\* variant: inserts in front of equal scores, as an unstable sort may
RECURSIVE InsertDesc_unstable(_, _)
InsertDesc_unstable(s, x) ==
  IF s = << >> THEN << x >>
  ELSE IF Head(s).score > x.score
       THEN << Head(s) >> \o InsertDesc_unstable(Tail(s), x)
  ELSE << x >> \o s

RECURSIVE InsertDesc(_, _)
InsertDesc(s, x) ==
  IF s = << >> THEN << x >>
  ELSE IF Head(s).score >= x.score THEN << Head(s) >> \o InsertDesc(Tail(s), x)
  ELSE << x >> \o s

RECURSIVE SortFrom(_, _, _)
SortFrom(s, k, acc) ==
  IF k > Len(s) THEN acc ELSE SortFrom(s, k + 1, InsertDesc(acc, s[k]))

SortByScoreDesc(s) == SortFrom(s, 1, << >>)

\* the tail of find_top_anime_with_high_10_ratings: sort, then slice [:n]
\* variant: slices [:n] before sorting
rank_truncfirst(items, n) == SortByScoreDesc(Take(items, n))
rank(items, n) == Take(SortByScoreDesc(items), n)

\* "for page in range(5)": TRUE while the loop has an iteration left
\* variant: one iteration too many
MorePages_offbyone(p) == p <= MALPages
MorePages(p) == p < MALPages

\* "if top_anime:" / "if qualified_anime:" in main, the guard of the save
\* variant: saves without the guard
ShouldSave_always(result) == TRUE
ShouldSave(result) == result # << >>

\* save_results / json.dump: one more file written
SaveResults(fs, anime_list_, filename) ==
  Append(fs, [name |-> filename, content |-> anime_list_])

HasNullScore(s) == \E k \in 1..Len(s) : s[k].score = Null

(* ------------------------------------------------------------------ state *)
VARIABLES
  odd,             \* the unusual summary item the service of this run serves
  pc,              \* position of the single thread of control
  use_jikan,       \* main: TRUE when the typed client id was empty
  page,            \* loop variable of the paging loop
  offset,          \* MAL paging offset
  anime_batch,     \* MAL: the page just received
  all_anime,       \* MAL: the accumulated candidates
  anime_list,      \* Jikan: the page being walked
  i,               \* 1-based position in all_anime / anime_list
  qualified_anime, \* the qualified records, in discovery order until sorted
  top_anime,       \* MAL: value returned by the finder
  files,           \* the files written, in order: [name, content]
  pageReqs,        \* history: parameters of the ranking-page requests sent
  nDetail,         \* history: number of detail requests sent
  fetchedFor,      \* history: the summary items a detail request was sent for
  pauseOwed,       \* history: a detail request was sent and no sleep followed
  emptySeen,       \* history: some ranking-page request came back empty
  detailAbsent     \* history: the last detail request came back absent (None)

vars == << odd, pc, use_jikan, page, offset, anime_batch, all_anime, anime_list, i,
           detailAbsent, qualified_anime, top_anime, files, pageReqs, nDetail,
           fetchedFor, pauseOwed, emptySeen >>

Init ==
  /\ odd \in OddItems
  /\ pc = "start"
  /\ use_jikan = FALSE
  /\ page = 0
  /\ offset = 0
  /\ anime_batch = << >>
  /\ all_anime = << >>
  /\ anime_list = << >>
  /\ i = 1
  /\ detailAbsent = FALSE
  /\ qualified_anime = << >>
  /\ top_anime = << >>
  /\ files = << >>
  /\ pageReqs = << >>
  /\ nDetail = 0
  /\ fetchedFor = {}
  /\ pauseOwed = FALSE
  /\ emptySeen = FALSE

(* ----------------------------------------------------------------- main() *)
\* main, lines 244-256 and 287-292: read the client id, pick the pipeline
Start ==
  /\ pc = "start"
  /\ \E CLIENT_ID \in {"", "id"} :
       /\ Expressible(odd, CLIENT_ID = "")
       /\ use_jikan' = (CLIENT_ID = "")
       /\ pc' = IF CLIENT_ID = "" THEN "jpage" ELSE "paging"
       /\ page' = IF CLIENT_ID = "" THEN 1 ELSE 0
  /\ UNCHANGED << odd, offset, anime_batch, all_anime, anime_list, i,
                  detailAbsent, qualified_anime, top_anime, files, pageReqs, nDetail,
                  fetchedFor, pauseOwed, emptySeen >>

(* ------------------------------------------------------ MAL (primary) path *)
\* one iteration of "for page in range(5)" with its search_top_anime call
MALFetchPage ==
  /\ pc = "paging"
  /\ MorePages(page)
  /\ \E r \in PageResponses(MALItemsWith(odd), MaxItems - Len(all_anime)) :
       /\ pageReqs' = Append(pageReqs, [limit |-> limit, offset |-> offset])
       /\ IF r.kind = "nodata"
          THEN \* response.json()['data'] raises KeyError, which is not a
               \* RequestException: it leaves search_top_anime and main
               /\ pc' = "crashed"
               /\ UNCHANGED << page, offset, anime_batch, all_anime, emptySeen >>
          ELSE /\ anime_batch' = r.data
               /\ emptySeen' = (emptySeen \/ r.data = << >>)
               /\ IF r.data = << >>
                  THEN \* break
                       /\ pc' = "enrich"
                       /\ UNCHANGED << page, offset, all_anime >>
                  ELSE /\ all_anime' = all_anime \o r.data
                       /\ offset' = offset + limit
                       /\ page' = page + 1
                       /\ pc' = IF MorePages(page + 1) THEN "paging" ELSE "enrich"
  /\ UNCHANGED << odd, use_jikan, anime_list, i, detailAbsent, qualified_anime,
                  top_anime, files, nDetail, fetchedFor, pauseOwed >>

\* one iteration of "for i, anime_item in enumerate(all_anime)"
MALProcessItem ==
  /\ pc = "enrich"
  /\ i <= Len(all_anime)
  /\ LET anime == all_anime[i] IN
       IF ~anime.node
       THEN \* anime_item['node'] raises KeyError
            /\ pc' = "crashed"
            /\ UNCHANGED << i, detailAbsent, qualified_anime, nDetail, fetchedFor,
                            pauseOwed >>
       ELSE IF Prefiltered(anime)
       THEN \* continue
            /\ i' = i + 1
            /\ UNCHANGED << pc, detailAbsent, qualified_anime, nDetail, fetchedFor,
                            pauseOwed >>
       ELSE \E d \in MALDetails :
            /\ detailAbsent' = ~d.present
            /\ nDetail' = nDetail + 1
            /\ fetchedFor' = fetchedFor \cup { [mean |-> anime.mean,
                                                users |-> anime.users] }
            /\ IF MALOutcome(d) = "raise"
               THEN /\ pc' = "crashed"
                    /\ pauseOwed' = TRUE
                    /\ UNCHANGED << i, qualified_anime >>
               ELSE /\ qualified_anime' =
                         IF MALOutcome(d) = "add"
                         THEN Append(qualified_anime,
                                [idx |-> i, score |-> anime.mean,
                                 ten |-> d.scores[FindTen(d.scores)].votes,
                                 total |-> anime.users,
                                 statistics |-> d.scores])
                         ELSE qualified_anime
                    \* time.sleep(0.1)
                    /\ pauseOwed' = FALSE
                    /\ i' = i + 1
                    /\ UNCHANGED pc
  /\ UNCHANGED << odd, use_jikan, page, offset, anime_batch, all_anime, anime_list,
                  top_anime, files, pageReqs, emptySeen >>

\* lines 152-156: sort in place, return the first top_n
MALRank ==
  /\ pc = "enrich"
  /\ i > Len(all_anime)
  /\ qualified_anime' = SortByScoreDesc(qualified_anime)
  /\ top_anime' = rank(qualified_anime, top_n)
  /\ pc' = "report"
  /\ UNCHANGED << odd, use_jikan, page, offset, anime_batch, all_anime, anime_list,
                  i, detailAbsent, files, pageReqs, nDetail, fetchedFor, pauseOwed,
                  emptySeen >>

\* main, lines 267-280: print and save when the result is not empty
MALReport ==
  /\ pc = "report"
  /\ files' = IF ShouldSave(top_anime)
              THEN SaveResults(files, top_anime, "mal_top_anime.json")
              ELSE files
  /\ pc' = "done"
  /\ UNCHANGED << odd, use_jikan, page, offset, anime_batch, all_anime, anime_list,
                  i, detailAbsent, qualified_anime, top_anime, pageReqs, nDetail,
                  fetchedFor, pauseOwed, emptySeen >>

(* --------------------------------------------------- Jikan (fallback) path *)
\* the step to the next iteration of "for page in range(1, pages_to_check+1)"
NextPagePc(p) == IF p < pages_to_check THEN "jpage" ELSE "jsort"

\* main, lines 294-296: one get_top_anime call; an empty page has no items
\* to walk, so the outer loop moves on to the next page
JikanFetchPage ==
  /\ pc = "jpage"
  /\ page <= pages_to_check
  /\ \E r \in PageResponses(JikanItemsWith(odd), MaxJikan - nDetail) :
       \* "except Exception" turns a failure and a missing 'data' key into []
       LET data == IF r.kind = "ok" THEN r.data ELSE << >> IN
       /\ pageReqs' = Append(pageReqs, [limit |-> jikan_limit, page |-> page])
       /\ anime_list' = data
       /\ emptySeen' = (emptySeen \/ data = << >>)
       /\ i' = 1
       /\ IF data = << >>
          THEN /\ page' = page + 1
               /\ pc' = NextPagePc(page)
          ELSE /\ pc' = "jitem"
               /\ UNCHANGED page
  /\ UNCHANGED << odd, use_jikan, offset, anime_batch, all_anime, detailAbsent,
                  qualified_anime, top_anime, files, nDetail, fetchedFor,
                  pauseOwed >>

\* main, lines 298-321: one iteration of "for anime in anime_list"
JikanProcessItem ==
  /\ pc = "jitem"
  /\ i <= Len(anime_list)
  /\ LET anime == anime_list[i] IN
     \E st \in JikanStats :
       /\ detailAbsent' = ~st.present
       /\ nDetail' = nDetail + 1
       /\ fetchedFor' = fetchedFor \cup { [mean |-> anime.score,
                                           users |-> NoKey] }
       /\ qualified_anime' =
            IF JikanOutcome(anime, st) = "add"
            THEN Append(qualified_anime,
                   [idx |-> nDetail + 1, score |-> anime.score,
                    ten |-> st.scores[JikanFindFrom(st.scores, 1)].votes,
                    total |-> st.total,
                    statistics |-> st.scores])
            ELSE qualified_anime
       \* time.sleep(0.34) is skipped when the except clause is taken
       /\ pauseOwed' = (JikanOutcome(anime, st) = "raise")
  /\ IF i < Len(anime_list)
     THEN /\ i' = i + 1
          /\ UNCHANGED << pc, page >>
     ELSE /\ i' = i + 1
          /\ page' = page + 1
          /\ pc' = NextPagePc(page)
  /\ UNCHANGED << odd, use_jikan, offset, anime_batch, all_anime, anime_list,
                  top_anime, files, pageReqs, emptySeen >>

\* main, lines 323-342: sort, print the first 50, save when not empty.
\* A null score makes the sort (two or more records) or the ":.2f" format
\* (one record) raise TypeError.
JikanReport ==
  /\ pc = "jsort"
  /\ IF HasNullScore(qualified_anime)
     THEN /\ pc' = "crashed"
          /\ UNCHANGED << qualified_anime, files >>
     ELSE /\ qualified_anime' = SortByScoreDesc(qualified_anime)
          /\ files' = IF ShouldSave(SortByScoreDesc(qualified_anime))
                      THEN SaveResults(files, SortByScoreDesc(qualified_anime),
                                       "jikan_top_anime.json")
                      ELSE files
          /\ pc' = "done"
  /\ UNCHANGED << odd, use_jikan, page, offset, anime_batch, all_anime, anime_list,
                  i, detailAbsent, top_anime, pageReqs, nDetail, fetchedFor,
                  pauseOwed, emptySeen >>

Next ==
  \/ Start
  \/ MALFetchPage
  \/ MALProcessItem
  \/ MALRank
  \/ MALReport
  \/ JikanFetchPage
  \/ JikanProcessItem
  \/ JikanReport

Spec == Init /\ [][Next]_vars

(* ================================================================ claims *)
\* the records of a sequence, as a set
Range(s) == { s[k] : k \in 1..Len(s) }

\* the ranked result of the run that has finished
Result == IF use_jikan THEN qualified_anime ELSE top_anime

\* C1: on either service path no detail request is sent for, and no qualified
\* record is built from, a summary item whose mean score is absent or null;
\* on the MAL path the same holds for a mean below min_score and a
\* scoring-user count that is absent or below min_users.
C1_PrefilterBeforeFetch ==
  /\ \A it \in fetchedFor :
       /\ it.mean # NoKey /\ it.mean # Null
       /\ ~use_jikan => /\ it.mean >= min_score
                        /\ it.users # NoKey
                        /\ it.users >= min_users
  /\ \A r \in Range(qualified_anime) :
       /\ r.score # NoKey /\ r.score # Null
       /\ ~use_jikan => r.score >= min_score /\ r.total >= min_users

\* C2: every qualified record (in the working list, the returned list and the
\* saved file) was built from a rating distribution that has an entry with
\* score-value 10, carries that entry's vote count as its 10_ratings, and that
\* count is at least 35.
BuiltFromTen(r) ==
  /\ \E k \in 1..Len(r.statistics) :
        r.statistics[k].score = 10 /\ r.statistics[k].votes = r.ten
  /\ r.ten >= 35

C2_QualifiedHasTen ==
  /\ \A r \in Range(qualified_anime) \cup Range(top_anime) : BuiltFromTen(r)
  /\ \A k \in 1..Len(files) : \A r \in Range(files[k].content) : BuiltFromTen(r)

\* a run has ended with a qualified record while another fetched candidate
\* was turned down
C2_Witness ==
  /\ pc = "done"
  /\ Len(qualified_anime) >= 1
  /\ nDetail > Len(qualified_anime)

\* the scan is over and the qualified records are about to be ranked
AtRank == \/ pc = "enrich" /\ i > Len(all_anime)
          \/ pc = "jsort"

\* out is the top-n selection of the records of inp: scores never rise, equal
\* scores keep their discovery order (idx), and nothing left out would have
\* ranked before something kept
RankedSelection(out, inp, n) ==
  /\ Len(out) = Min(n, Len(inp))
  /\ Range(out) \subseteq Range(inp)
  /\ \A k \in 1..Len(out), m \in 1..Len(out) : k # m => out[k] # out[m]
  /\ \A k \in 1..(Len(out) - 1) :
       \/ out[k].score > out[k + 1].score
       \/ out[k].score = out[k + 1].score /\ out[k].idx < out[k + 1].idx
  /\ \A r \in Range(inp) \ Range(out) : \A k \in 1..Len(out) :
       \/ out[k].score > r.score
       \/ out[k].score = r.score /\ out[k].idx < r.idx

\* C3: the ranked output is the top-n selection of the qualified records in
\* non-increasing score order with ties in discovery order, for the list the
\* run returns and for every n the ranking function may be called with.
C3_RankedStable ==
  /\ (AtRank /\ ~HasNullScore(qualified_anime)) =>
       \A n \in 0..MaxTopN :
         RankedSelection(rank(qualified_anime, n), qualified_anime, n)
  /\ (pc \in {"report", "done"} /\ ~use_jikan) =>
       RankedSelection(top_anime, qualified_anime, top_n)
  /\ (pc = "done" /\ use_jikan) =>
       RankedSelection(qualified_anime, qualified_anime, Len(qualified_anime))

\* the scenario of scores 9.1, 8.7, 9.1: first, third, second
C3_Witness ==
  /\ pc = "report"
  /\ Len(top_anime) = 3
  /\ top_anime[1].score = 91 /\ top_anime[2].score = 91 /\ top_anime[3].score = 87
  /\ top_anime[1].idx < top_anime[3].idx
  /\ top_anime[3].idx < top_anime[2].idx

\* C4: for every qualified list that reaches the ranking step and every
\* n >= 0, rank(items, n) is the first min(n, len) records of
\* rank(items, len); an n beyond the length returns every record.
C4_TruncateAfterSort ==
  AtRank => \A n \in 0..MaxTopN :
    /\ rank(qualified_anime, n)
         = Take(rank(qualified_anime, Len(qualified_anime)),
                Min(n, Len(qualified_anime)))
    /\ n >= Len(qualified_anime) =>
         Len(rank(qualified_anime, n)) = Len(qualified_anime)

\* the finder has returned two records that the sort had to swap, with top_n
\* beyond their number
C4_Witness ==
  /\ pc = "report"
  /\ Len(top_anime) = 2
  /\ top_anime[1].idx > top_anime[2].idx
  /\ top_n > Len(top_anime)

\* a step that sent a detail request which came back absent
AbsentDetailStep == nDetail' = nDetail + 1 /\ detailAbsent'

\* C5: a step whose detail request comes back absent adds nothing to the
\* qualified set, changes nothing else of the result, raises nothing, and
\* leaves the scan at the next candidate, exactly as a skipped candidate does.
C5_AbsentDetailSkipped ==
  [][AbsentDetailStep =>
       /\ qualified_anime' = qualified_anime
       /\ top_anime' = top_anime
       /\ files' = files
       /\ all_anime' = all_anime /\ anime_list' = anime_list
       /\ i' = i + 1
       /\ ~pauseOwed'
       /\ IF use_jikan
          THEN pc' = IF i < Len(anime_list) THEN "jitem" ELSE NextPagePc(page)
          ELSE pc' = "enrich"]_vars

\* the last detail request came back absent, a record qualified earlier is
\* still there and the scan stands at a later candidate that will be fetched
C5_Witness ==
  /\ pc = "enrich"
  /\ detailAbsent
  /\ Len(qualified_anime) >= 1
  /\ i <= Len(all_anime)
  /\ all_anime[i].node /\ ~Prefiltered(all_anime[i])

\* C6: no failure leaves the entry point: the run never ends in an uncaught
\* exception.
C6_NeverRaises == pc # "crashed"

\* C7: once a ranking-page request has come back empty, no further
\* ranking-page request is sent.
C7_StopAfterEmptyPage ==
  [][Len(pageReqs') > Len(pageReqs) => ~emptySeen]_vars

\* C8 as stated: every completed run has written exactly one file, named
\* after the service path and holding the full ranked result, also when the
\* result is empty.
C8_AlwaysOneFile ==
  pc = "done" =>
    files = << [name |-> IF use_jikan THEN "jikan_top_anime.json"
                         ELSE "mal_top_anime.json",
                content |-> Result] >>

\* C8 as amended: a completed run with a non-empty ranked result has written
\* exactly one file, named after the service path and holding the full ranked
\* result; a completed run with an empty result, and a run that has not
\* completed, has written none.
C8_OneFileWhenNonEmpty ==
  IF pc = "done" /\ Result # << >>
  THEN files = << [name |-> IF use_jikan THEN "jikan_top_anime.json"
                            ELSE "mal_top_anime.json",
                   content |-> Result] >>
  ELSE files = << >>

\* a run has completed and saved a ranked result of two or more records
C8_Witness ==
  /\ pc = "done"
  /\ Len(files) = 1
  /\ Len(files[1].content) >= 2
  /\ files[1].content = Result

\* C9: no network request is sent while a detail request is still owed its
\* rate-limit pause.
C9_PauseAfterDetail ==
  [][(nDetail' # nDetail \/ Len(pageReqs') # Len(pageReqs)) => ~pauseOwed]_vars

\* C10: on the MAL path the k-th ranking-page request (k from 0) carries
\* limit 500 and offset 500*k, at most 5 are sent, none is sent after a detail
\* request, and each received page is appended to the candidate list, which
\* nothing else changes.
C10_Paging ==
  [][~use_jikan' =>
       IF Len(pageReqs') # Len(pageReqs)
       THEN /\ pageReqs' = Append(pageReqs,
                             [limit |-> 500, offset |-> 500 * Len(pageReqs)])
            /\ Len(pageReqs') <= 5
            /\ nDetail = 0 /\ nDetail' = 0
            /\ pc' # "crashed" => all_anime' = all_anime \o anime_batch'
            /\ pc' = "crashed" => all_anime' = all_anime
       ELSE all_anime' = all_anime]_vars

\* five non-empty pages were received, the fifth at offset 2000, and the
\* detail requests have begun
C10_Witness ==
  /\ ~use_jikan
  /\ Len(pageReqs) = 5
  /\ pageReqs[5].offset = 2000
  /\ offset = 2500
  /\ Len(all_anime) >= 5
  /\ nDetail >= 1

====
